---- MODULE Spec2Model ----
(***************************************************************************)
(* Model of examples/esp32/apps/memfault_demo_app/main/cmd_system.c:       *)
(* the console commands `restart', `tasks' and the scripted `make'.        *)
(*                                                                         *)
(* The console loop runs one handler at a time.  Every platform call a     *)
(* handler makes (printf, fputs, vTaskDelay, malloc, free, logging) is     *)
(* appended to `calls', the trace of the invocation in progress.           *)
(* RTC_CNTL_STORE0_REG survives esp_restart(); everything else is RAM.     *)
(* Register values are kept inside the range where the cast of the         *)
(* 32-bit register word to `int' preserves the value.                      *)
(***************************************************************************)
EXTENDS Integers, Sequences, FiniteSets, TLC

(* ---- bounds of the model ---- *)
MaxArgs == 3          \* tokens after the command name
MaxInvocations == 4   \* `make' invocations followed from the initial state
MaxInitCount == 3     \* largest register value at the start
MaxTasks == 2         \* largest uxTaskGetNumberOfTasks()

(* ---- tokens: C strings as sequences of characters ---- *)
tok_make == <<"m", "a", "k", "e">>
tok_restart == <<"r", "e", "s", "t", "a", "r", "t">>
tok_tasks == <<"t", "a", "s", "k", "s">>
tok_all == <<"a", "l", "l">>
tok_flash == <<"f", "l", "a", "s", "h">>
tok_monitor == <<"m", "o", "n", "i", "t", "o", "r">>
tok_dash_j == <<"-", "j">>
tok_four == <<"4">>
tok_bogus == <<"b", "o", "g", "u", "s">>
tok_empty == <<>>

Tokens == {tok_all, tok_flash, tok_monitor, tok_dash_j, tok_four, tok_bogus, tok_empty}

RECURSIVE SeqsUpTo(_)
SeqsUpTo(n) == IF n = 0 THEN {<<>>}
               ELSE LET S == SeqsUpTo(n - 1)
                    IN S \cup {Append(s, t) : s \in {x \in S : Len(x) = n - 1}, t \in Tokens}

ArgLists == SeqsUpTo(MaxArgs)

(* first character of a C string; "NUL" for the empty string *)
FirstChar(s) == IF Len(s) = 0 THEN "NUL" ELSE s[1]

strcmp_eq(a, b) == a = b

isdigit(c) == c \in {"0", "1", "2", "3", "4", "5", "6", "7", "8", "9"}

(* ---- program constants ---- *)
bytes_per_task == 40
n_items == 5
delay_ms == 200
refuse_at == 3

VARIABLES
  reg,              \* RTC_CNTL_STORE0_REG
  commands,         \* names registered with the console
  pc,               \* position of the console loop / running handler
  argv,             \* argument vector of the running handler; argv[1] is the command name
  count,            \* make: local count
  i,                \* make: loop index
  need_make, need_flash, need_monitor,
  task_list_buffer, \* tasks_info: 0 is NULL, otherwise the size of the live buffer
  calls,            \* platform calls made by the invocation in progress
  status,           \* value returned to the console loop: -1 while none
  with_tasks_info,  \* WITH_TASKS_INFO of this build
  reg0,             \* history: register value in the initial state
  invocations       \* history: number of `make' invocations so far

vars == <<reg, commands, pc, argv, count, i, need_make, need_flash, need_monitor,
          task_list_buffer, calls, status, with_tasks_info, reg0, invocations>>

argc == Len(argv)
Arg(k) == argv[k + 1]     \* argv[k] of the C code

Call(op, what, arg, idx) == [op |-> op, what |-> what, arg |-> arg, idx |-> idx]

Printf(what) == Call("printf", what, <<>>, 0)
RefusalLine == Printf("This is not the console you are looking for.")
NoRuleLine(t) == Call("printf", "make: *** No rule to make target", t, 0)
MakeBlock == Printf("make_output")
FlashBlock(k) == Call("printf", "flash_output", <<>>, k)
MonitorBlock == Printf("monitor_output")
Delay == Call("vTaskDelay", "ms", <<>>, delay_ms)
HeaderLine == Call("fputs", "Task Name Status Prio HWM Task Number", <<>>, 0)
TaskRecords(n) == Call("fputs", "task_list_buffer", <<>>, n)
LogE == Call("ESP_LOGE", "failed to allocate buffer for vTaskList output", <<>>, 0)
LogI == Call("ESP_LOGI", "Restarting", <<>>, 0)
MallocCall(n, ok) == Call("malloc", IF ok THEN "block" ELSE "NULL", <<>>, n)
FreeCall == Call("free", "task_list_buffer", <<>>, 0)

(* RAM contents after a reset *)
RamCleared ==
  /\ commands' = {}
  /\ argv' = <<>>
  /\ count' = 0
  /\ i' = 0
  /\ need_make' = FALSE
  /\ need_flash' = FALSE
  /\ need_monitor' = FALSE
  /\ task_list_buffer' = 0
  /\ calls' = <<>>
  /\ status' = -1

Init ==
  /\ reg \in 0..MaxInitCount
  /\ reg0 = reg
  /\ invocations = 0
  /\ with_tasks_info \in BOOLEAN
  /\ pc = "boot"
  /\ commands = {}
  /\ argv = <<>>
  /\ count = 0
  /\ i = 0
  /\ need_make = FALSE
  /\ need_flash = FALSE
  /\ need_monitor = FALSE
  /\ task_list_buffer = 0
  /\ calls = <<>>
  /\ status = -1

Locals == <<count, i, need_make, need_flash, need_monitor, task_list_buffer>>
History == <<reg0, invocations, with_tasks_info>>

(* register_system(): installs the handlers, then the console loop runs *)
register_system ==
  /\ pc = "boot"
  /\ commands' = {"restart", "free", "heap_dump", "make"}
                   \cup (IF with_tasks_info THEN {"tasks"} ELSE {})
  /\ pc' = "console"
  /\ UNCHANGED <<reg, argv, Locals, calls, status, History>>

(* `return s': the status goes back to the console loop *)
Return(s) ==
  /\ status' = s
  /\ pc' = "returned"

(* the console loop takes the status and waits for the next line; the frame of
   the handler is gone *)
console_loop ==
  /\ pc = "returned"
  /\ pc' = "console"
  /\ argv' = <<>>
  /\ count' = 0
  /\ i' = 0
  /\ need_make' = FALSE
  /\ need_flash' = FALSE
  /\ need_monitor' = FALSE
  /\ task_list_buffer' = task_list_buffer
  /\ calls' = <<>>
  /\ status' = -1
  /\ UNCHANGED <<reg, commands, History>>

(* the console loop calls the handler registered under the typed name *)
console_run_make ==
  /\ pc = "console"
  /\ "make" \in commands
  /\ invocations < MaxInvocations
  /\ \E args \in ArgLists : argv' = <<tok_make>> \o args
  /\ invocations' = invocations + 1
  /\ pc' = "make"
  /\ calls' = <<>>
  /\ status' = -1
  /\ UNCHANGED <<reg, commands, Locals, reg0, with_tasks_info>>

console_run_restart ==
  /\ pc = "console"
  /\ "restart" \in commands
  /\ argv' = <<tok_restart>>
  /\ pc' = "restart"
  /\ calls' = <<>>
  /\ status' = -1
  /\ UNCHANGED <<reg, commands, Locals, History>>

console_run_tasks ==
  /\ pc = "console"
  /\ "tasks" \in commands
  /\ argv' = <<tok_tasks>>
  /\ pc' = "tasks_info"
  /\ calls' = <<>>
  /\ status' = -1
  /\ UNCHANGED <<reg, commands, Locals, History>>

(* esp_restart(): the chip resets; the RTC store register keeps its value *)
esp_restart ==
  /\ pc = "esp_restart"
  /\ pc' = "boot"
  /\ RamCleared
  /\ UNCHANGED <<reg, History>>

(* restart() *)
restart ==
  /\ pc = "restart"
  /\ calls' = Append(calls, LogI)
  /\ pc' = "esp_restart"
  /\ UNCHANGED <<reg, commands, argv, Locals, status, History>>

(* tasks_info(): malloc and the NULL check *)
tasks_info_malloc ==
  /\ pc = "tasks_info"
  /\ \E n \in 1..MaxTasks, ok \in BOOLEAN :
       IF ~ok
       THEN /\ calls' = calls \o <<MallocCall(n * bytes_per_task, FALSE), LogE>>
            /\ task_list_buffer' = 0
            /\ Return(1)
       ELSE /\ calls' = Append(calls, MallocCall(n * bytes_per_task, TRUE))
            /\ task_list_buffer' = n * bytes_per_task
            /\ pc' = "tasks_print"
            /\ UNCHANGED status
  /\ UNCHANGED <<reg, commands, argv, count, i, need_make, need_flash, need_monitor, History>>

(* tasks_info(): header, vTaskList and the buffer *)
tasks_info_print ==
  /\ pc = "tasks_print"
  /\ calls' = calls \o <<HeaderLine, TaskRecords(task_list_buffer \div bytes_per_task)>>
  /\ pc' = "tasks_free"
  /\ UNCHANGED <<reg, commands, argv, Locals, status, History>>

(* variant: the buffer is not released *)
tasks_info_free_leak ==
  /\ pc = "tasks_free"
  /\ Return(0)
  /\ UNCHANGED <<reg, commands, argv, Locals, calls, History>>

(* tasks_info(): free and return *)
tasks_info_free ==
  /\ pc = "tasks_free"
  /\ calls' = Append(calls, FreeCall)
  /\ task_list_buffer' = 0
  /\ Return(0)
  /\ UNCHANGED <<reg, commands, argv, count, i, need_make, need_flash, need_monitor, History>>

(* variants of the check: `>', `==' in place of `>=' *)
Refuses_off_by_one(c) == c > refuse_at

Refuses_exact(c) == c = refuse_at

(* make(): `++count >= 3' *)
Refuses(c) == c >= refuse_at

(* make(): the if/else-if chain applied to one argument *)
TokenClass(t) ==
  IF strcmp_eq(t, tok_all) THEN "all"
  ELSE IF strcmp_eq(t, tok_flash) THEN "flash"
  ELSE IF strcmp_eq(t, tok_monitor) THEN "monitor"
  ELSE IF FirstChar(t) = "-" THEN "ignored"
  ELSE IF isdigit(FirstChar(t)) THEN "ignored"
  ELSE "unknown"

(* variants of the default: argc compared with 0; default whenever no phase is requested *)
DefaultsToMake_argc0(n, nm, nf, nmon) == n = 0

DefaultsToMake_no_phase(n, nm, nf, nmon) == ~nm /\ ~nf /\ ~nmon

(* make(): `if (argc == 1) need_make = true' *)
DefaultsToMake(n, nm, nf, nmon) == n = 1

(* variant: the incremented count is stored before the check *)
make_store_before_check ==
  /\ pc = "make"
  /\ count' = reg + 1
  /\ reg' = reg + 1
  /\ IF Refuses(reg + 1)
     THEN /\ calls' = Append(calls, RefusalLine)
          /\ Return(0)
          /\ UNCHANGED <<i, need_make, need_flash, need_monitor>>
     ELSE /\ need_make' = FALSE
          /\ need_flash' = FALSE
          /\ need_monitor' = FALSE
          /\ i' = 1
          /\ pc' = "make_scan"
          /\ UNCHANGED <<calls, status>>
  /\ UNCHANGED <<commands, argv, task_list_buffer, History>>

(* make(): read the register, refuse or store the incremented count *)
make ==
  /\ pc = "make"
  /\ count' = reg + 1
  /\ IF Refuses(reg + 1)
     THEN /\ calls' = Append(calls, RefusalLine)
          /\ Return(0)
          /\ UNCHANGED <<reg, i, need_make, need_flash, need_monitor>>
     ELSE /\ reg' = reg + 1
          /\ need_make' = FALSE
          /\ need_flash' = FALSE
          /\ need_monitor' = FALSE
          /\ i' = 1
          /\ pc' = "make_scan"
          /\ UNCHANGED <<calls, status>>
  /\ UNCHANGED <<commands, argv, task_list_buffer, History>>

(* variant: an unknown token prints its line and the scan goes on *)
make_scan_continue ==
  /\ pc = "make_scan"
  /\ i < argc
  /\ LET c == TokenClass(Arg(i)) IN
       /\ calls' = IF c = "unknown" THEN Append(calls, NoRuleLine(Arg(i))) ELSE calls
       /\ need_make' = (need_make \/ c \in {"all", "flash"})
       /\ need_flash' = (need_flash \/ c = "flash")
       /\ need_monitor' = (need_monitor \/ c = "monitor")
       /\ i' = i + 1
       /\ UNCHANGED <<pc, status>>
  /\ UNCHANGED <<reg, commands, argv, count, task_list_buffer, History>>

(* variant: an unknown token is reported as a failure *)
make_scan_fail_status ==
  /\ pc = "make_scan"
  /\ i < argc
  /\ LET c == TokenClass(Arg(i)) IN
       IF c = "unknown"
       THEN /\ calls' = Append(calls, NoRuleLine(Arg(i)))
            /\ Return(1)
            /\ UNCHANGED <<i, need_make, need_flash, need_monitor>>
       ELSE /\ need_make' = (need_make \/ c \in {"all", "flash"})
            /\ need_flash' = (need_flash \/ c = "flash")
            /\ need_monitor' = (need_monitor \/ c = "monitor")
            /\ i' = i + 1
            /\ UNCHANGED <<pc, calls, status>>
  /\ UNCHANGED <<reg, commands, argv, count, task_list_buffer, History>>

(* make(): one iteration of the argument loop *)
make_scan ==
  /\ pc = "make_scan"
  /\ i < argc
  /\ LET c == TokenClass(Arg(i)) IN
       IF c = "unknown"
       THEN /\ calls' = Append(calls, NoRuleLine(Arg(i)))
            /\ Return(0)
            /\ UNCHANGED <<i, need_make, need_flash, need_monitor>>
       ELSE /\ need_make' = (need_make \/ c \in {"all", "flash"})
            /\ need_flash' = (need_flash \/ c = "flash")
            /\ need_monitor' = (need_monitor \/ c = "monitor")
            /\ i' = i + 1
            /\ UNCHANGED <<pc, calls, status>>
  /\ UNCHANGED <<reg, commands, argv, count, task_list_buffer, History>>

(* make(): the loop is over; default phase and the make block *)
make_make ==
  /\ pc = "make_scan"
  /\ ~(i < argc)
  /\ LET nm == need_make \/ DefaultsToMake(argc, need_make, need_flash, need_monitor) IN
       /\ need_make' = nm
       /\ calls' = IF nm THEN Append(calls, MakeBlock) ELSE calls
  /\ i' = 0
  /\ pc' = "make_flash"
  /\ UNCHANGED <<reg, commands, argv, count, need_flash, need_monitor,
                 task_list_buffer, status, History>>

(* variant: the flash blocks are printed without the delay *)
make_flash_no_delay ==
  /\ pc = "make_flash"
  /\ need_flash
  /\ i < n_items
  /\ calls' = Append(calls, FlashBlock(i))
  /\ i' = i + 1
  /\ UNCHANGED <<reg, commands, pc, argv, count, need_make, need_flash, need_monitor,
                 task_list_buffer, status, History>>

(* make(): print one flash block *)
make_flash ==
  /\ pc = "make_flash"
  /\ need_flash
  /\ i < n_items
  /\ calls' = Append(calls, FlashBlock(i))
  /\ pc' = "make_delay"
  /\ UNCHANGED <<reg, commands, argv, Locals, status, History>>

(* make(): vTaskDelay after a flash block *)
make_delay ==
  /\ pc = "make_delay"
  /\ calls' = Append(calls, Delay)
  /\ i' = i + 1
  /\ pc' = "make_flash"
  /\ UNCHANGED <<reg, commands, argv, count, need_make, need_flash, need_monitor,
                 task_list_buffer, status, History>>

(* variant: the banner is printed and the handler returns *)
make_monitor_returns ==
  /\ pc = "make_flash"
  /\ ~(need_flash /\ i < n_items)
  /\ calls' = IF need_monitor THEN Append(calls, MonitorBlock) ELSE calls
  /\ Return(0)
  /\ UNCHANGED <<reg, commands, argv, Locals, History>>

(* make(): monitor banner and restart, or return 0 *)
make_monitor ==
  /\ pc = "make_flash"
  /\ ~(need_flash /\ i < n_items)
  /\ IF need_monitor
     THEN /\ calls' = Append(calls, MonitorBlock)
          /\ pc' = "esp_restart"
          /\ UNCHANGED status
     ELSE /\ Return(0)
          /\ UNCHANGED calls
  /\ UNCHANGED <<reg, commands, argv, Locals, History>>

Next ==
  \/ register_system
  \/ console_loop
  \/ console_run_make
  \/ console_run_restart
  \/ console_run_tasks
  \/ esp_restart
  \/ restart
  \/ tasks_info_malloc
  \/ tasks_info_print
  \/ tasks_info_free
  \/ make
  \/ make_scan
  \/ make_make
  \/ make_flash
  \/ make_delay
  \/ make_monitor

Spec == Init /\ [][Next]_vars

(* ---- vocabulary of the properties ---- *)
Range(s) == {s[k] : k \in 1..Len(s)}
IsPrefix(s, t) == Len(s) <= Len(t) /\ SubSeq(t, 1, Len(s)) = s
Occurrences(s, e) == Cardinality({k \in 1..Len(s) : s[k] = e})

InMake == Len(argv) > 0 /\ argv[1] = tok_make
InTasks == Len(argv) > 0 /\ argv[1] = tok_tasks
Entered == InMake /\ pc # "make"
Refused == Len(calls) > 0 /\ calls[1] = RefusalLine
MakeReturned == InMake /\ pc = "returned"
ArgIdx == 1..(argc - 1)

Digits == {"0", "1", "2", "3", "4", "5", "6", "7", "8", "9"}
IgnoredTok(t) == Len(t) > 0 /\ (t[1] = "-" \/ t[1] \in Digits)
PhaseTok(t) == t \in {tok_all, tok_flash, tok_monitor}
UnknownTok(t) == ~PhaseTok(t) /\ ~IgnoredTok(t)
HasUnknown == \E k \in ArgIdx : UnknownTok(Arg(k))
FirstUnknown == CHOOSE k \in ArgIdx : UnknownTok(Arg(k)) /\ \A j \in 1..(k - 1) : ~UnknownTok(Arg(j))

(* C1: starting from a register of 0, the 3rd `make' invocation, whatever its
   arguments, prints exactly the refusal line, makes no other call, does not
   restart and returns 0. *)
C1_ThirdInvocationRefuses ==
  (reg0 = 0 /\ invocations = 3 /\ Entered) =>
     /\ pc = "returned"
     /\ status = 0
     /\ calls = <<RefusalLine>>

C1_Witness ==
  /\ reg0 = 0 /\ invocations = 3 /\ Entered
  /\ argc = 3 /\ Arg(1) = tok_flash /\ Arg(2) = tok_monitor
  /\ calls = <<RefusalLine>>

(* C2: starting from a register of 0, the 1st and the 2nd invocation of `make'
   with no arguments or with the single argument `all' does not print the
   refusal line, prints the make block and returns 0. *)
C2_FirstTwoInvocationsMake ==
  (reg0 = 0 /\ invocations \in {1, 2} /\ Entered
     /\ argv \in {<<tok_make>>, <<tok_make, tok_all>>}) =>
     /\ RefusalLine \notin Range(calls)
     /\ pc # "esp_restart"
     /\ pc = "returned" => (status = 0 /\ calls = <<MakeBlock>>)

C2_Witness ==
  /\ reg0 = 0 /\ invocations = 2 /\ MakeReturned
  /\ argv = <<tok_make, tok_all>>
  /\ calls = <<MakeBlock>>

(* make invocations that have passed the register check *)
Checked == IF pc = "make" THEN invocations - 1 ELSE invocations

(* C3, as stated: every `make' invocation, a refusing one included, increments
   the register, so that after n invocations from value c it holds c + n
   (taken for the values c that the handler itself leaves: 0, 1 and 2). *)
C3_Original == reg0 <= 2 => reg = reg0 + Checked

(* C3, amended: the register is incremented by one on each `make' invocation
   that does not refuse (one that names an unknown target included), a refusing
   invocation leaves it as it is, and it is never reset or decreased: after n
   invocations from value c it holds c + n when c + n < 3, and otherwise the
   larger of c and 2. *)
C3_CounterSaturates ==
  reg = IF reg0 + Checked < 3 THEN reg0 + Checked
        ELSE IF reg0 > 2 THEN reg0 ELSE 2

C3_Witness ==
  /\ reg0 = 0 /\ invocations = 4 /\ MakeReturned
  /\ Refused
  /\ reg = 2

(* C4, as stated: an unknown token does not end the command; the phases that
   the other tokens request are still printed when the handler returns. *)
C4_Original ==
  (MakeReturned /\ ~Refused) =>
     \A k \in ArgIdx :
        /\ Arg(k) \in {tok_all, tok_flash} => MakeBlock \in Range(calls)
        /\ UnknownTok(Arg(k)) => NoRuleLine(Arg(k)) \in Range(calls)

(* C4, amended: the first unknown token of the `make' argument list ends the
   command: the handler prints the one error line that names it and returns 0
   at once; the tokens after it are not scanned and no phase block is printed,
   not even for a phase that an earlier token requested. *)
C4_UnknownTokenStops ==
  (Entered /\ ~Refused /\ HasUnknown) =>
     /\ pc \in {"make_scan", "returned"}
     /\ pc = "make_scan" => (calls = <<>> /\ i <= FirstUnknown)
     /\ pc = "returned" => (calls = <<NoRuleLine(Arg(FirstUnknown))>> /\ status = 0
                           /\ i = FirstUnknown)

C4_Witness ==
  /\ MakeReturned /\ ~Refused
  /\ argv = <<tok_make, tok_all, tok_bogus>>
  /\ calls = <<NoRuleLine(tok_bogus)>>
  /\ need_make

(* C5: when `make' does not refuse and its first token that is not ignored is
   none of all, flash, monitor, the handler prints the "No rule to make target"
   line naming that token and returns 0 without restarting. *)
C5_UnknownTargetIsCosmetic ==
  (Entered /\ ~Refused /\ HasUnknown
     /\ \A j \in 1..(FirstUnknown - 1) : IgnoredTok(Arg(j))) =>
     /\ pc # "esp_restart"
     /\ pc = "returned" => (status = 0 /\ NoRuleLine(Arg(FirstUnknown)) \in Range(calls)
                           /\ Occurrences(calls, NoRuleLine(Arg(FirstUnknown))) = 1)

C5_Witness ==
  /\ MakeReturned /\ ~Refused
  /\ argv = <<tok_make, tok_dash_j, tok_bogus>>
  /\ calls = <<NoRuleLine(tok_bogus)>>
  /\ status = 0

FlashTranscript ==
  <<Printf("make_output"),
    Call("printf", "flash_output", <<>>, 0), Call("vTaskDelay", "ms", <<>>, 200),
    Call("printf", "flash_output", <<>>, 1), Call("vTaskDelay", "ms", <<>>, 200),
    Call("printf", "flash_output", <<>>, 2), Call("vTaskDelay", "ms", <<>>, 200),
    Call("printf", "flash_output", <<>>, 3), Call("vTaskDelay", "ms", <<>>, 200),
    Call("printf", "flash_output", <<>>, 4), Call("vTaskDelay", "ms", <<>>, 200)>>

(* C6: a `make flash' that does not refuse prints the make block first, then
   the five flash blocks in their order, a 200 ms delay after each of them and
   before the next, and returns 0. *)
C6_FlashTranscript ==
  (Entered /\ ~Refused /\ argv = <<tok_make, tok_flash>>) =>
     /\ IsPrefix(calls, FlashTranscript)
     /\ pc # "esp_restart"
     /\ pc = "returned" => (calls = FlashTranscript /\ status = 0)

C6_Witness ==
  /\ MakeReturned /\ argv = <<tok_make, tok_flash>>
  /\ calls = FlashTranscript
  /\ status = 0

(* C7: a `make' that does not refuse and whose arguments include monitor and
   no unknown token prints the monitor banner after any make and flash block,
   then restarts: no status reaches the console loop, and the register keeps
   its incremented value across the restart. *)
C7_MonitorState ==
  (Entered /\ ~Refused /\ ~HasUnknown /\ \E k \in ArgIdx : Arg(k) = tok_monitor) =>
     /\ pc # "returned"
     /\ status = -1
     /\ pc # "esp_restart" => MonitorBlock \notin Range(calls)
     /\ pc = "esp_restart" =>
          /\ calls # <<>>
          /\ calls[Len(calls)] = MonitorBlock
          /\ Occurrences(calls, MonitorBlock) = 1
          /\ reg = reg0 + invocations
          /\ reg = count

C7_MonitorRestarts ==
  /\ []C7_MonitorState
  /\ [][(pc = "esp_restart" \/ pc = "boot") => reg' = reg]_vars

C7_Witness ==
  /\ InMake /\ pc = "esp_restart"
  /\ argv = <<tok_make, tok_flash, tok_monitor>>
  /\ calls = Append(FlashTranscript, MonitorBlock)
  /\ reg = reg0 + 1

(* C8: in `tasks', a failed allocation returns 1 with neither the header nor a
   task record printed and nothing released; a successful one is released
   exactly once, after the records, before the handler returns 0; no buffer is
   held after a return. *)
C8_TasksBuffer ==
  (InTasks /\ pc = "returned") =>
     /\ task_list_buffer = 0
     /\ status \in {0, 1}
     /\ status = 1 =>
          /\ \A c \in Range(calls) : c.op \notin {"fputs", "free"}
          /\ \E c \in Range(calls) : c.op = "malloc" /\ c.what = "NULL"
     /\ status = 0 =>
          /\ Occurrences(calls, FreeCall) = 1
          /\ calls[Len(calls)] = FreeCall
          /\ \E n \in 1..MaxTasks :
               calls = <<MallocCall(n * 40, TRUE), HeaderLine, TaskRecords(n), FreeCall>>

C8_TasksBufferHeld ==
  /\ []C8_TasksBuffer
  /\ [](task_list_buffer # 0 => pc \in {"tasks_print", "tasks_free"})

C8_Witness ==
  /\ InTasks /\ pc = "returned"
  /\ status = 1
  /\ calls = <<MallocCall(80, FALSE), LogE>>

(* C9: `make' only ever writes values below 3 to the register, a refusing
   invocation leaves the register unchanged, and once the register holds 2 or
   more every later `make' invocation refuses, across restarts. *)
C9_RefusalIsPermanent ==
  /\ [][reg' # reg => reg' < 3]_vars
  /\ [][reg >= 2 => reg' = reg]_vars
  /\ [][(RefusalLine \in Range(calls') /\ RefusalLine \notin Range(calls)) => reg' = reg]_vars
  /\ []((Entered /\ reg >= 2 /\ pc # "returned") => (~Refused /\ reg = 2 /\ reg = count))
  /\ [][(pc = "make" /\ reg >= 2) =>
          (calls' = <<RefusalLine>> /\ status' = 0 /\ pc' = "returned")]_vars

C9_Witness ==
  /\ reg0 = 1 /\ invocations = 3 /\ MakeReturned
  /\ calls = <<RefusalLine>>
  /\ reg = 2

(* C10: the default to the make phase applies only when argc is 1: a `make'
   that does not refuse and whose arguments are all ignored tokens prints
   nothing, still increments the register and returns 0. *)
C10_IgnoredTokensRequestNothing ==
  (Entered /\ ~Refused /\ argc > 1 /\ \A k \in ArgIdx : IgnoredTok(Arg(k))) =>
     /\ calls = <<>>
     /\ pc # "esp_restart"
     /\ reg = reg0 + invocations
     /\ pc = "returned" => status = 0

C10_Witness ==
  /\ MakeReturned /\ argv = <<tok_make, tok_dash_j, tok_four>>
  /\ calls = <<>>
  /\ status = 0
  /\ reg = 1

====
